---- MODULE Spec2Model ----
(***************************************************************************)
(* picalc: fixed-point numbers of DIGITS limbs with a cached count of      *)
(* leading zero limbs (struct Number), the arctangent series ataninv and   *)
(* the Machin driver main, modelled from src/picalc.cpp.                   *)
(*                                                                         *)
(* A Number is a record [digits, zeros]; digits is a function on           *)
(* 0..DIGITS-1 (index 0 is the most significant limb, as in the source)    *)
(* and a limb is a value in 0..BASE-1.  The source has BASE = 2^64 and     *)
(* DIGITS = 10000; the model runs the same code at reduced sizes.  A       *)
(* truncation to Digit is % BASE, a shift >> 64 is \div BASE and ~d is     *)
(* BASE - 1 - d.                                                           *)
(***************************************************************************)
EXTENDS Integers, Sequences, FiniteSets, TLC

\* Sizes of the operation model (Spec).
OpsDigits == 2
OpsBase == 4
\* Sizes of the series model (SeriesSpec); 239 * 239 has to stay below the base.
SeriesDigits == 6
SeriesBase == 65536
\* Largest argument of a stand-alone ataninv call in SeriesSpec.
MaxArg == 12
\* Cap on ataninv's denom (a 128-bit counter in the source); the series of
\* SeriesSpec end far below it.
MaxDenom == 200

VARIABLES
    DIGITS,   \* number of limbs of every Number      (const int DIGITS)
    BASE,     \* limb base                             (Digit, 2^64)
    a,        \* Spec: the Number the mutators act on
    b,        \* Spec: the second Number, operand of +=, -= and set_to_div
    op,       \* Spec: the mutator that ran last
    pa,       \* Spec: a before the mutator that ran last
    d,        \* Spec: integer argument of the mutator that ran last
    orig,     \* Spec: a before a -= b that was followed at once by a += b
    pc,       \* SeriesSpec: position in main / ataninv
    ret,      \* SeriesSpec: where ataninv returns to
    arg,      \* SeriesSpec: parameter x of ataninv
    x,        \* SeriesSpec: main's x
    result,   \* SeriesSpec: ataninv's result
    term,     \* SeriesSpec: ataninv's term
    tmp,      \* SeriesSpec: ataninv's tmp
    denom,    \* SeriesSpec: ataninv's denom
    x2        \* SeriesSpec: ataninv's x2

vars == <<DIGITS, BASE, a, b, op, pa, d, orig,
          pc, ret, arg, x, result, term, tmp, denom, x2>>
opsVars == <<a, b, op, pa, d, orig>>
seriesVars == <<pc, ret, arg, x, result, term, tmp, denom, x2>>

Min(m, n) == IF m < n THEN m ELSE n
Max(m, n) == IF m > n THEN m ELSE n

(***************************************************************************)
(* struct Number                                                           *)
(***************************************************************************)

\* Number(): digits.resize(DIGITS) value-initialises every limb to 0.
NewNumber == [digits |-> [i \in 0..(DIGITS - 1) |-> 0], zeros |-> DIGITS]

\* set_zero(): resize(0), resize(DIGITS), zeros = DIGITS.
set_zero(self) == [digits |-> [i \in 0..(DIGITS - 1) |-> 0], zeros |-> DIGITS]

\* The for loop of update_zeros: the first i >= min with digits[i] != 0, else DIGITS.
RECURSIVE ZerosScan(_, _)
ZerosScan(digits, i) ==
    IF i >= DIGITS THEN DIGITS
    ELSE IF digits[i] # 0 THEN i
    ELSE ZerosScan(digits, i + 1)

\* A plausible slip: the scan starts one limb too late.
update_zeros_late(self, min) == [self EXCEPT !.zeros = ZerosScan(self.digits, min + 1)]

update_zeros(self, min) == [self EXCEPT !.zeros = ZerosScan(self.digits, min)]

is_zero(self) == self.zeros = DIGITS

\* The range-for of set_inv: nom = rem << 64; d = nom / x (truncated to a
\* Digit); rem = nom % x.
RECURSIVE InvLoop(_, _, _, _)
InvLoop(digits, i, rem, xx) ==
    IF i >= DIGITS THEN digits
    ELSE LET nom == rem * BASE
         IN  InvLoop([digits EXCEPT ![i] = (nom \div xx) % BASE], i + 1, nom % xx, xx)

set_inv(self, xx) ==
    update_zeros([digits |-> InvLoop(set_zero(self).digits, 0, 1, xx),
                  zeros |-> DIGITS], 0)

\* The loop of mul4, with the carry that is left when it ends (and dropped).
RECURSIVE Mul4Loop(_, _, _)
Mul4Loop(digits, i, carry) ==
    IF i < 0 THEN [digits |-> digits, carry |-> carry]
    ELSE LET c == carry + 4 * digits[i]
         IN  Mul4Loop([digits EXCEPT ![i] = c % BASE], i - 1, c \div BASE)

\* A plausible slip: the carry of the limb below is overwritten, not added to.
RECURSIVE Mul4LoopNoCarry(_, _, _)
Mul4LoopNoCarry(digits, i, carry) ==
    IF i < 0 THEN [digits |-> digits, carry |-> carry]
    ELSE LET c == 4 * digits[i]
         IN  Mul4LoopNoCarry([digits EXCEPT ![i] = c % BASE], i - 1, c \div BASE)

mul4_nocarry(self) ==
    update_zeros([self EXCEPT !.digits = Mul4LoopNoCarry(self.digits, DIGITS - 1, 0).digits], 0)

mul4(self) ==
    update_zeros([self EXCEPT !.digits = Mul4Loop(self.digits, DIGITS - 1, 0).digits], 0)

\* num = (rem << 64) + digit is a double-width value.  With
\* BASE = k * dd + m its quotient and remainder by dd are computed here from
\* k and m, so that no intermediate value exceeds TLC's 32-bit integers:
\*   num = rem * k * dd + (rem * m + digit).
DivQuot(rem, digit, dd) == rem * (BASE \div dd) + (rem * (BASE % dd) + digit) \div dd
DivRem(rem, digit, dd) == (rem * (BASE % dd) + digit) % dd

\* First loop of set_to_div: digits[i] = 0 for i in zeros .. x.zeros-1.
ClearRange(digits, from, to) ==
    [i \in 0..(DIGITS - 1) |-> IF i >= from /\ i < to THEN 0 ELSE digits[i]]

\* Second loop of set_to_div: digits[i] = num / d, rem = num % d, reading x.
RECURSIVE SetToDivLoop(_, _, _, _, _)
SetToDivLoop(digits, xdigits, i, rem, dd) ==
    IF i >= DIGITS THEN digits
    ELSE SetToDivLoop([digits EXCEPT ![i] = DivQuot(rem, xdigits[i], dd) % BASE],
                      xdigits, i + 1, DivRem(rem, xdigits[i], dd), dd)

\* A plausible slip: the limbs of the receiver below x.zeros are not cleared.
set_to_div_stale(self, xn, dd) ==
    update_zeros([digits |-> SetToDivLoop(self.digits, xn.digits, xn.zeros, 0, dd),
                  zeros |-> self.zeros], xn.zeros)

set_to_div(self, xn, dd) ==
    update_zeros([digits |-> SetToDivLoop(ClearRange(self.digits, self.zeros, xn.zeros),
                                          xn.digits, xn.zeros, 0, dd),
                  zeros |-> self.zeros], xn.zeros)

\* The loop of operator+=: i from DIGITS-1 down to rhs.zeros.
RECURSIVE AddLoop(_, _, _, _, _)
AddLoop(digits, rdigits, rzeros, i, carry) ==
    IF i < rzeros THEN digits
    ELSE LET res == carry + digits[i] + rdigits[i]
         IN  AddLoop([digits EXCEPT ![i] = res % BASE], rdigits, rzeros,
                     i - 1, res \div BASE)

PlusAssign(self, rhs) ==
    update_zeros([digits |-> AddLoop(self.digits, rhs.digits, rhs.zeros, DIGITS - 1, 0),
                  zeros |-> self.zeros],
                 Max(1, Min(self.zeros, rhs.zeros)) - 1)

\* The loop of operator-=.  exit is the index i at which the early return
\* was taken, -1 when the loop ran over every limb.
RECURSIVE SubLoop(_, _, _, _, _)
SubLoop(digits, rdigits, rzeros, i, carry) ==
    IF i < 0 THEN [digits |-> digits, exit |-> -1]
    ELSE IF i < rzeros /\ carry = 1 THEN [digits |-> digits, exit |-> i]
    ELSE LET res == carry + digits[i] + (BASE - 1 - rdigits[i])
                    + (IF i = DIGITS - 1 THEN 1 ELSE 0)
         IN  SubLoop([digits EXCEPT ![i] = res % BASE], rdigits, rzeros,
                     i - 1, res \div BASE)

\* A plausible slip: the early return does not wait for the borrow to resolve.
RECURSIVE SubLoopEager(_, _, _, _, _)
SubLoopEager(digits, rdigits, rzeros, i, carry) ==
    IF i < 0 THEN [digits |-> digits, exit |-> -1]
    ELSE IF i < rzeros THEN [digits |-> digits, exit |-> i]
    ELSE LET res == carry + digits[i] + (BASE - 1 - rdigits[i])
                    + (IF i = DIGITS - 1 THEN 1 ELSE 0)
         IN  SubLoopEager([digits EXCEPT ![i] = res % BASE], rdigits, rzeros,
                          i - 1, res \div BASE)

SubRun(self, rhs) == SubLoop(self.digits, rhs.digits, rhs.zeros, DIGITS - 1, 0)

MinusAssign_eager(self, rhs) ==
    LET run == SubLoopEager(self.digits, rhs.digits, rhs.zeros, DIGITS - 1, 0)
        n == [digits |-> run.digits, zeros |-> self.zeros]
    IN  IF run.exit # -1
        THEN update_zeros(n, Min(self.zeros, run.exit + 1))
        ELSE update_zeros(n, 0)

\* A plausible slip: the early return sets zeros without scanning.
MinusAssign_noscan(self, rhs) ==
    LET run == SubRun(self, rhs)
        n == [digits |-> run.digits, zeros |-> self.zeros]
    IN  IF run.exit # -1
        THEN [n EXCEPT !.zeros = Min(self.zeros, run.exit + 1)]
        ELSE update_zeros(n, 0)

MinusAssign(self, rhs) ==
    LET run == SubRun(self, rhs)
        n == [digits |-> run.digits, zeros |-> self.zeros]
    IN  IF run.exit # -1
        THEN update_zeros(n, Min(self.zeros, run.exit + 1))
        ELSE update_zeros(n, 0)

\* The loop of operator/=: in place, from zeros on.
RECURSIVE DivLoop(_, _, _, _)
DivLoop(digits, i, rem, xx) ==
    IF i >= DIGITS THEN digits
    ELSE DivLoop([digits EXCEPT ![i] = DivQuot(rem, digits[i], xx) % BASE],
                 i + 1, DivRem(rem, digits[i], xx), xx)

\* A plausible slip: zeros is reset to 0 instead of being recomputed.
DivAssign_reset(self, xx) ==
    [digits |-> DivLoop(self.digits, self.zeros, 0, xx), zeros |-> 0]

DivAssign(self, xx) ==
    update_zeros([digits |-> DivLoop(self.digits, self.zeros, 0, xx),
                  zeros |-> self.zeros], self.zeros)

(***************************************************************************)
(* Spec: two Numbers and every mutator of struct Number.                   *)
(***************************************************************************)

Divisors == 1..(BASE - 1)

NoOrig == [valid |-> FALSE, num |-> NewNumber]

SeriesIdle ==
    /\ pc = "idle" /\ ret = "idle" /\ arg = 0 /\ denom = 0 /\ x2 = 0
    /\ x = NewNumber /\ result = NewNumber /\ term = NewNumber /\ tmp = NewNumber

Init ==
    /\ DIGITS = OpsDigits
    /\ BASE = OpsBase
    /\ a = NewNumber
    /\ b = NewNumber
    /\ op = "new"
    /\ pa = NewNumber
    /\ d = 0
    /\ orig = NoOrig
    /\ SeriesIdle

\* What every mutator step of Spec records and leaves alone.
Ran(name, n) ==
    /\ op' = name
    /\ pa' = a
    /\ d' = n
    /\ UNCHANGED <<DIGITS, BASE, b, seriesVars>>

OpSetZero ==
    /\ a' = set_zero(a)
    /\ orig' = NoOrig
    /\ Ran("set_zero", 0)

OpSetInv ==
    \E xx \in Divisors :
        /\ a' = set_inv(a, xx)
        /\ orig' = NoOrig
        /\ Ran("set_inv", xx)

OpMul4 ==
    /\ a' = mul4(a)
    /\ orig' = NoOrig
    /\ Ran("mul4", 0)

OpSetToDiv ==
    \E dd \in Divisors :
        /\ a' = set_to_div(a, b, dd)
        /\ orig' = NoOrig
        /\ Ran("set_to_div", dd)

OpAdd ==
    /\ a' = PlusAssign(a, b)
    /\ orig' = IF op = "sub" THEN [valid |-> TRUE, num |-> pa] ELSE NoOrig
    /\ Ran("add", 0)

OpSub ==
    /\ a' = MinusAssign(a, b)
    /\ orig' = NoOrig
    /\ Ran("sub", 0)

OpDiv ==
    \E dd \in Divisors :
        /\ a' = DivAssign(a, dd)
        /\ orig' = NoOrig
        /\ Ran("div", dd)

\* Number b = a: the copy of a Number (as Number term = result in ataninv).
OpCopy ==
    /\ b' = a
    /\ op' = "copy"
    /\ pa' = a
    /\ d' = 0
    /\ orig' = NoOrig
    /\ UNCHANGED <<DIGITS, BASE, a, seriesVars>>

Next ==
    \/ OpSetZero
    \/ OpSetInv
    \/ OpMul4
    \/ OpSetToDiv
    \/ OpAdd
    \/ OpSub
    \/ OpDiv
    \/ OpCopy

Spec == Init /\ [][Next]_vars

(***************************************************************************)
(* SeriesSpec: main, and ataninv(x) called on its own for 5 <= x <= MaxArg.*)
(***************************************************************************)

OpsIdle ==
    /\ a = NewNumber /\ b = NewNumber /\ op = "idle" /\ pa = NewNumber
    /\ d = 0 /\ orig = NoOrig

SeriesInit ==
    /\ DIGITS = SeriesDigits
    /\ BASE = SeriesBase
    /\ OpsIdle
    /\ x = NewNumber /\ result = NewNumber /\ term = NewNumber /\ tmp = NewNumber
    /\ denom = 0 /\ x2 = 0
    /\ \/ pc = "main" /\ ret = "main" /\ arg = 0
       \/ pc = "ataninv" /\ ret = "done" /\ arg \in 5..MaxArg

Fixed == UNCHANGED <<DIGITS, BASE, opsVars>>

\* main: Number x = ataninv(5), the call.
MainCallFirst ==
    /\ pc = "main"
    /\ arg' = 5
    /\ ret' = "main_mul4"
    /\ pc' = "ataninv"
    /\ UNCHANGED <<x, result, term, tmp, denom, x2>>
    /\ Fixed

\* ataninv: the declarations before the loop.
AtanInit ==
    /\ pc = "ataninv"
    /\ result' = set_inv(NewNumber, arg)
    /\ x2' = arg * arg
    /\ term' = result'
    /\ tmp' = NewNumber
    /\ denom' = 1
    /\ pc' = "while"
    /\ UNCHANGED <<x, ret, arg>>
    /\ Fixed

\* while (!term.is_zero())
AtanWhile ==
    /\ pc = "while"
    /\ pc' = IF is_zero(term) THEN "return" ELSE "minus_term"
    /\ UNCHANGED <<x, ret, arg, result, term, tmp, denom, x2>>
    /\ Fixed

\* denom += 2; term /= x2; tmp.set_to_div(term, denom), before result -= tmp.
AtanMinusTerm ==
    /\ pc = "minus_term"
    /\ denom + 2 <= MaxDenom
    /\ denom' = denom + 2
    /\ term' = DivAssign(term, x2)
    /\ tmp' = set_to_div(tmp, term', denom')
    /\ pc' = "minus"
    /\ UNCHANGED <<x, ret, arg, result, x2>>
    /\ Fixed

\* result -= tmp
AtanMinus ==
    /\ pc = "minus"
    /\ result' = MinusAssign(result, tmp)
    /\ pc' = "plus_term"
    /\ UNCHANGED <<x, ret, arg, term, tmp, denom, x2>>
    /\ Fixed

\* denom += 2; term /= x2; tmp.set_to_div(term, denom), before result += tmp.
AtanPlusTerm ==
    /\ pc = "plus_term"
    /\ denom + 2 <= MaxDenom
    /\ denom' = denom + 2
    /\ term' = DivAssign(term, x2)
    /\ tmp' = set_to_div(tmp, term', denom')
    /\ pc' = "plus"
    /\ UNCHANGED <<x, ret, arg, result, x2>>
    /\ Fixed

\* result += tmp
AtanPlus ==
    /\ pc = "plus"
    /\ result' = PlusAssign(result, tmp)
    /\ pc' = "while"
    /\ UNCHANGED <<x, ret, arg, term, tmp, denom, x2>>
    /\ Fixed

\* return result; the first call of main initialises x with it.
AtanReturn ==
    /\ pc = "return"
    /\ pc' = ret
    /\ x' = IF ret = "main_mul4" THEN result ELSE x
    /\ UNCHANGED <<ret, arg, result, term, tmp, denom, x2>>
    /\ Fixed

\* main: the first x.mul4()
MainMul4First ==
    /\ pc = "main_mul4"
    /\ x' = mul4(x)
    /\ pc' = "main_call2"
    /\ UNCHANGED <<ret, arg, result, term, tmp, denom, x2>>
    /\ Fixed

\* main: x -= ataninv(239), the call.
MainCallSecond ==
    /\ pc = "main_call2"
    /\ arg' = 239
    /\ ret' = "main_sub"
    /\ pc' = "ataninv"
    /\ UNCHANGED <<x, result, term, tmp, denom, x2>>
    /\ Fixed

\* main: x -= ataninv(239), the subtraction of the returned Number.
MainSub ==
    /\ pc = "main_sub"
    /\ x' = MinusAssign(x, result)
    /\ pc' = "main_mul4b"
    /\ UNCHANGED <<ret, arg, result, term, tmp, denom, x2>>
    /\ Fixed

\* main: the second x.mul4()
MainMul4Second ==
    /\ pc = "main_mul4b"
    /\ x' = mul4(x)
    /\ pc' = "main_done"
    /\ UNCHANGED <<ret, arg, result, term, tmp, denom, x2>>
    /\ Fixed

SeriesNext ==
    \/ MainCallFirst
    \/ AtanInit
    \/ AtanWhile
    \/ AtanMinusTerm
    \/ AtanMinus
    \/ AtanPlusTerm
    \/ AtanPlus
    \/ AtanReturn
    \/ MainMul4First
    \/ MainCallSecond
    \/ MainSub
    \/ MainMul4Second

\* The program is sequential: a step that is enabled is taken.
SeriesSpec == SeriesInit /\ [][SeriesNext]_vars /\ WF_vars(SeriesNext)

(***************************************************************************)
(* Reference notions the properties are stated with.                      *)
(***************************************************************************)

\* The limbs 0..k read as one base-BASE integer.
RECURSIVE ValueUpTo(_, _)
ValueUpTo(digits, k) ==
    IF k < 0 THEN 0 ELSE ValueUpTo(digits, k - 1) * BASE + digits[k]

Value(n) == ValueUpTo(n.digits, DIGITS - 1)

\* BASE^DIGITS
Modulus == BASE ^ DIGITS

Abs(n) == IF n < 0 THEN -n ELSE n

\* Index of the first nonzero limb at or after from; DIGITS when there is none.
LeastNonzero(digits, from) ==
    LET nz == {i \in from..(DIGITS - 1) : digits[i] # 0}
    IN  IF nz = {} THEN DIGITS ELSE CHOOSE i \in nz : \A j \in nz : i <= j

ZerosValid(n) == n.zeros = LeastNonzero(n.digits, 0)

\* The first limbs of the fractional part of pi in base 65536
\* (pi - 3 = 0.243F 6A88 85A3 08D3 1319 8A2E 0370 7344 A409 3822 ... hex).
PiFraction == <<9279, 27272, 34211, 2259, 4889, 35374, 880, 29508, 41993, 14370>>

(***************************************************************************)
(* Properties.                                                             *)
(***************************************************************************)

\* C1: after any sequence of mutators, starting from fresh Numbers, the cached
\* zeros of every Number is exactly its number of leading zero limbs.
C1_ZeroCount == ZerosValid(a) /\ ZerosValid(b)

\* C1 witness: a -= b with a < b has run and left a Number with leading zero
\* limbs that is not zero.
C1_Witness ==
    /\ op = "sub" /\ Value(pa) < Value(b)
    /\ a.zeros > 0 /\ ~is_zero(a)

\* C2 (as claimed): after a += b the limbs of a are (A + B) mod BASE^DIGITS.
C2_AddExact ==
    op = "add" => Value(a) = (Value(pa) + Value(b)) % Modulus

\* C3 (as claimed): a -= b followed by a += b, with a >= b, restores a.
C3_AddInverse ==
    (op = "add" /\ orig.valid /\ Value(orig.num) >= Value(b)) => a = orig.num

\* C4: after a -= b with a >= b the limbs of a are A - B exactly, and they are
\* the limbs a subtraction over all DIGITS limbs (no early return) produces.
C4_SubExact ==
    (op = "sub" /\ Value(pa) >= Value(b)) =>
        /\ Value(a) = Value(pa) - Value(b)
        /\ a.digits = SubLoop(pa.digits, b.digits, 0, DIGITS - 1, 0).digits

\* C4 witness: a -= b left through the early return, with b not zero.
C4_Witness ==
    /\ op = "sub" /\ Value(pa) >= Value(b)
    /\ SubRun(pa, b).exit >= 0
    /\ ~is_zero(b)
    /\ a # pa

\* C5: after a.set_to_div(b, d) the limbs of a are floor(B / d), whatever a
\* held before.
C5_DivFidelity ==
    op = "set_to_div" => Value(a) = Value(b) \div d

\* C5 witness: the receiver had nonzero limbs above the first nonzero limb of x.
C5_Witness ==
    /\ op = "set_to_div" /\ d > 1
    /\ pa.zeros < b.zeros /\ ~is_zero(b)

\* C6 (as claimed): main leaves x with the first DIGITS limbs of pi - 3.
C6_MachinPi ==
    pc = "main_done" => \A i \in 0..(DIGITS - 1) : x.digits[i] = PiFraction[i + 1]

\* C7: ataninv returns, and term.zeros never decreases from one term /= x2 to
\* the next.
TermZerosGrow ==
    pc \in {"minus_term", "plus_term"} => (term.zeros <= term'.zeros)

C7_Termination ==
    /\ <>(pc \in {"done", "main_done"})
    /\ [][TermZerosGrow]_vars

\* C7 witness: the loop of ataninv(239) has ended on a zero term after at
\* least one pass.
C7_Witness ==
    /\ pc = "return" /\ arg = 239
    /\ is_zero(term) /\ denom > 1

\* C8 (as claimed): after set_inv(x) the limbs L satisfy |BASE^DIGITS - x*L| <= x.
C8_Reciprocal ==
    op = "set_inv" => Abs(Modulus - d * Value(a)) <= d

\* C9: after mul4 the limbs are (4 * V) mod BASE^DIGITS; the carry dropped above
\* index 0 is floor(4 * V / BASE^DIGITS), in 0..3, so the result is 4 * V when
\* 4 * V < BASE^DIGITS.
C9_Mul4 ==
    op = "mul4" =>
        LET V == Value(pa)
            dropped == Mul4Loop(pa.digits, DIGITS - 1, 0).carry
        IN  /\ Value(a) = (4 * V) % Modulus
            /\ dropped = (4 * V) \div Modulus
            /\ dropped \in 0..3
            /\ 4 * V < Modulus => Value(a) = 4 * V

\* C9 witness: mul4 has dropped a carry of 3.
C9_Witness ==
    /\ op = "mul4"
    /\ Mul4Loop(pa.digits, DIGITS - 1, 0).carry = 3
    /\ ~is_zero(a)

\* The state after a -= b, a >= b, that left through the early return.
SubEarlyExit ==
    /\ op = "sub" /\ Value(pa) >= Value(b)
    /\ SubRun(pa, b).exit >= 0

\* C10 (as claimed): on the early return at index i, zeros becomes
\* min(zeros before, i + 1).
C10_ExitZerosIsMin ==
    SubEarlyExit => a.zeros = Min(pa.zeros, SubRun(pa, b).exit + 1)

\* C10 (amended): on the early return at index i, zeros becomes the index of
\* the first nonzero limb at or after min(zeros before, i + 1), DIGITS when
\* there is none.
C10_ExitZerosScanned ==
    SubEarlyExit =>
        a.zeros = LeastNonzero(a.digits, Min(pa.zeros, SubRun(pa, b).exit + 1))

\* C10 witness: an early return after which the first nonzero limb lies beyond
\* min(zeros before, i + 1).
C10_Witness ==
    /\ SubEarlyExit
    /\ a.zeros > Min(pa.zeros, SubRun(pa, b).exit + 1)

====
